---- MODULE Spec2Model ----
(***************************************************************************)
(* Model of the BN254 scalar field Fr of src/src/bn256/fr.rs.              *)
(*                                                                         *)
(* TLC integers are 32 bits wide, so a u64 is held as four 16-bit digits,  *)
(* least significant first, and every wider integer as a longer digit      *)
(* vector.  An Fr is its four u64 limbs, least significant first, exactly  *)
(* as `pub struct Fr(pub(crate) [u64; 4])`.  Bytes are numbers 0..255.     *)
(*                                                                         *)
(* fr.rs leaves the arithmetic to crate::arithmetic and to the macros      *)
(* field_arithmetic! and field_common!, and the table to table.rs; these   *)
(* are written here as the specification describes them (schoolbook        *)
(* product, Montgomery reduction limb by limb with INV, one conditional    *)
(* subtraction).  from_raw is the exception: fr.rs documents the constants *)
(* it builds by their canonical values (`GENERATOR = 7 mod r`,             *)
(* `1 / 2 mod r`), so from_raw converts its limbs to Montgomery form.      *)
(***************************************************************************)
EXTENDS Integers, Sequences, FiniteSets, TLC

\* One digit of the u64 representation holds 16 bits.
W == 2^16

\* The u64 literal 0x<h3><h2><h1><h0>, written as in the source.
U64(h3, h2, h1, h0) == <<h0, h1, h2, h3>>

\* val as u64 for a small number val < 2^31 (the integers TLC can hold).
u64_of(val) == <<val % W, val \div W, 0, 0>>

Zeros(n) == [i \in 1..n |-> 0]

(***************************************************************************)
(* Machine arithmetic on digit vectors (u64, u128, u256, u512).            *)
(***************************************************************************)

\* a + b + c over equal-length vectors: the wrapped sum and the carry out.
RECURSIVE AddAcc(_, _, _, _)
AddAcc(a, b, c, acc) ==
    IF Len(acc) = Len(a) THEN [v |-> acc, c |-> c]
    ELSE LET i == Len(acc) + 1
             s == a[i] + b[i] + c
         IN AddAcc(a, b, s \div W, Append(acc, s % W))

AddV(a, b, c) == AddAcc(a, b, c, <<>>)

\* a - b - c over equal-length vectors: the wrapped difference and the borrow out.
RECURSIVE SubAcc(_, _, _, _)
SubAcc(a, b, c, acc) ==
    IF Len(acc) = Len(a) THEN [v |-> acc, c |-> c]
    ELSE LET i == Len(acc) + 1
             s == a[i] - b[i] - c
         IN SubAcc(a, b, IF s < 0 THEN 1 ELSE 0, Append(acc, s % W))

SubV(a, b, c) == SubAcc(a, b, c, <<>>)

\* x * y of two digits as <<low digit, high digit>>, in steps that fit 32 bits.
MulD(x, y) ==
    LET p0 == (x % 256) * y
        p1 == (x \div 256) * y
        s  == p0 + 256 * (p1 % 256)
    IN <<s % W, (s \div W) + (p1 \div 256)>>

\* The digits of a * d for one digit d: Len(a) + 1 digits.
RECURSIVE RowAcc(_, _, _, _)
RowAcc(a, d, c, acc) ==
    IF Len(acc) = Len(a) THEN Append(acc, c)
    ELSE LET p == MulD(a[Len(acc) + 1], d)
             s == p[1] + c
         IN RowAcc(a, d, p[2] + (s \div W), Append(acc, s % W))

\* acc + a * b[j..] * W^(j-1), for acc of Len(a) + Len(b) digits
\* (the test on acc has TLC evaluate each partial sum before the next row).
RECURSIVE MulAcc(_, _, _, _)
MulAcc(acc, a, b, j) ==
    IF j > Len(b) \/ Len(acc) = 0 THEN acc
    ELSE IF b[j] = 0 THEN MulAcc(acc, a, b, j + 1)
    ELSE LET row == Zeros(j - 1) \o RowAcc(a, b[j], 0, <<>>) \o Zeros(Len(b) - j)
         IN MulAcc(AddV(acc, row, 0).v, a, b, j + 1)

\* The full product of a and b: Len(a) + Len(b) digits.
MulV(a, b) == MulAcc(Zeros(Len(a) + Len(b)), a, b, 1)

\* a >= b as integers, for equal-length vectors.
GeqV(a, b) == SubV(a, b, 0).c = 0

(***************************************************************************)
(* The constants of fr.rs.                                                 *)
(***************************************************************************)

MODULUS == <<U64(\h43e1, \hf593, \hf000, \h0001),
             U64(\h2833, \he848, \h79b9, \h7091),
             U64(\hb850, \h45b6, \h8181, \h585d),
             U64(\h3064, \h4e72, \he131, \ha029)>>

INV == U64(\hc2e1, \hf593, \hefff, \hffff)

R == <<U64(\hac96, \h341c, \h4fff, \hfffb),
       U64(\h36fc, \h7695, \h9f60, \hcd29),
       U64(\h666e, \ha36f, \h7879, \h462e),
       U64(\h0e0a, \h77c1, \h9a07, \hdf2f)>>

R2 == <<U64(\h1bb8, \he645, \hae21, \h6da7),
        U64(\h53fe, \h3ab1, \he35c, \h59e3),
        U64(\h8c49, \h833d, \h53bb, \h8085),
        U64(\h0216, \hd0b1, \h7f4e, \h44a5)>>

R3 == <<U64(\h5e94, \hd8e1, \hb4bf, \h0040),
        U64(\h2a48, \h9cbe, \h1cfb, \hb6b8),
        U64(\h893c, \hc664, \ha19f, \hcfed),
        U64(\h0cf8, \h594b, \h7fcc, \h657c)>>

\* The digits of an Fr, or of any array of u64, as one integer.
Digits(f) == IF Len(f) = 0 THEN <<>>
             ELSE [i \in 1..(4 * Len(f)) |-> f[((i - 1) \div 4) + 1][((i - 1) % 4) + 1]]

\* The four u64 limbs of a 256-bit integer.
Limbs(d) == [k \in 1..(Len(d) \div 4) |-> SubSeq(d, 4 * k - 3, 4 * k)]

(***************************************************************************)
(* crate::arithmetic and the field_arithmetic!/field_common! macros.       *)
(***************************************************************************)

\* sbb(a, b, borrow): a - (b + (borrow >> 63)) over u128, as (low, high) u64.
sbb(a, b, borrow) ==
    LET r == SubV(a, b, borrow[4] \div (2^15))
    IN <<r.v, IF r.c = 1 THEN U64(\hffff, \hffff, \hffff, \hffff) ELSE u64_of(0)>>

\* One round per limb: add k * MODULUS * 2^(64 i) with k = limb_i * INV mod 2^64,
\* which clears limb i.
RECURSIVE MontRound(_, _)
MontRound(t, i) ==
    IF i = 4 \/ Len(t) = 0 THEN t
    ELSE LET k == SubSeq(MulV(SubSeq(t, 4 * i + 1, 4 * i + 4), INV), 1, 4)
             q == Zeros(4 * i) \o MulV(k, Digits(MODULUS)) \o Zeros(16 - 4 * i)
         IN MontRound(AddV(t, q, 0).v, i + 1)

\* The 512-bit integer t (eight limbs) times 2^-256 modulo r, fully reduced.
montgomery_reduce(t) ==
    LET u  == MontRound(Digits(t) \o Zeros(4), 0)
        hi == SubSeq(u, 17, 36)
        m  == Digits(MODULUS) \o Zeros(4)
    IN Limbs(SubSeq(IF GeqV(hi, m) THEN SubV(hi, m, 0).v ELSE hi, 1, 16))

\* Montgomery multiplication: the 512-bit schoolbook product, then the reduction.
mul(a, b) == montgomery_reduce(Limbs(MulV(Digits(a), Digits(b))))

\* Field addition: the limb-wise sum, then one conditional subtraction of r.
add(a, b) ==
    LET s == AddV(Digits(a) \o <<0>>, Digits(b) \o <<0>>, 0).v
        m == Digits(MODULUS) \o <<0>>
    IN Limbs(SubSeq(IF GeqV(s, m) THEN SubV(s, m, 0).v ELSE s, 1, 16))

\* An Fr of raw limbs, converted to Montgomery form: (&Fr(val)).mul(&R2).
from_raw(val) == mul(val, R2)

\* [u64; 4] from Fr: out of Montgomery form, the canonical limbs below r.
into_u64x4(elt) == montgomery_reduce(elt \o <<u64_of(0), u64_of(0), u64_of(0), u64_of(0)>>)

\* The 512-bit integer of eight limbs reduced modulo r: d0 * R2 + d1 * R3.
from_u512(limbs) ==
    LET d0 == <<limbs[1], limbs[2], limbs[3], limbs[4]>>
        d1 == <<limbs[5], limbs[6], limbs[7], limbs[8]>>
    IN add(mul(d0, R2), mul(d1, R3))

u64_from_le_bytes(b) ==
    <<b[1] + 256 * b[2], b[3] + 256 * b[4], b[5] + 256 * b[6], b[7] + 256 * b[8]>>

u64_to_le_bytes(w) ==
    <<w[1] % 256, w[1] \div 256, w[2] % 256, w[2] \div 256,
      w[3] % 256, w[3] \div 256, w[4] % 256, w[4] \div 256>>

(***************************************************************************)
(* fr.rs: the remaining constants.                                         *)
(***************************************************************************)

\* GENERATOR built from its limbs as they are, not converted by from_raw.
GENERATOR_unconverted == <<U64(0, 0, 0, \h07), U64(0, 0, 0, \h00),
                           U64(0, 0, 0, \h00), U64(0, 0, 0, \h00)>>

GENERATOR == from_raw(<<U64(0, 0, 0, \h07), U64(0, 0, 0, \h00),
                        U64(0, 0, 0, \h00), U64(0, 0, 0, \h00)>>)

S == 28

ROOT_OF_UNITY == from_raw(<<U64(\hd34f, \h1ed9, \h60c3, \h7c9c),
                            U64(\h3215, \hcf6d, \hd393, \h29c8),
                            U64(\h9886, \h5ea9, \h3dd3, \h1f74),
                            U64(\h03dd, \hb9f5, \h166d, \h18b7)>>)

TWO_INV == from_raw(<<U64(\ha1f0, \hfac9, \hf800, \h0001),
                      U64(\h9419, \hf424, \h3cdc, \hb848),
                      U64(\hdc28, \h22db, \h40c0, \hac2e),
                      U64(\h1832, \h2739, \h7098, \hd014)>>)

ROOT_OF_UNITY_INV == from_raw(<<U64(\h0ed3, \he50a, \h414e, \h6dba),
                                U64(\hb226, \h25f5, \h9115, \haba7),
                                U64(\h1bbe, \h5871, \h80f3, \h4361),
                                U64(\h0481, \h2717, \h4daa, \hbc26)>>)

DELTA == from_raw(<<U64(\h870e, \h56bb, \he533, \he9a2),
                    U64(\h5b5f, \h898e, \h5e96, \h3f25),
                    U64(\h64ec, \h26aa, \hd4c8, \h6e71),
                    U64(\h0922, \h6b6e, \h22c6, \hf0ca)>>)

ZETA == from_raw(<<U64(\hb8ca, \h0b2d, \h3663, \h6f23),
                   U64(\hcc37, \ha73f, \hec2b, \hc5e9),
                   U64(\h048b, \h6e19, \h3fd8, \h4104),
                   U64(\h3064, \h4e72, \he131, \ha029)>>)

\* Field::ZERO and Field::ONE: Self::zero() and Self::one().
ZERO == <<u64_of(0), u64_of(0), u64_of(0), u64_of(0)>>

ONE == R

\* T_MINUS1_OVER2 as it would be with t // 2 taken of t = (r - 1) >> 27.
T_MINUS1_OVER2_shift27 == <<U64(\h9b97, \h0914, \h3e1f, \h593f),
                            U64(\h1815, \h85d2, \h833e, \h8487),
                            U64(\h131a, \h029b, \h8504, \h5b68),
                            U64(\h0000, \h0003, \h0644, \he72e)>>

\* `(t - 1) // 2`, the exponent sqrt hands to Tonelli-Shanks.
T_MINUS1_OVER2 == <<U64(\hcdcb, \h848a, \h1f0f, \hac9f),
                    U64(\h0c0a, \hc2e9, \h419f, \h4243),
                    U64(\h098d, \h014d, \hc282, \h2db4),
                    U64(\h0000, \h0001, \h8322, \h7397)>>

(***************************************************************************)
(* Integers, for stating the properties: the value of a digit vector, its  *)
(* residue modulo r by long division, and the modulus read from            *)
(* MODULUS_STR.  No Montgomery arithmetic is used here, and the operations *)
(* of fr.rs use none of this (only the table's entries are given by ModR). *)
(***************************************************************************)

\* MODULUS_STR, its 32 bytes most significant first.
MODULUS_STR ==
    <<\h30, \h64, \h4e, \h72, \he1, \h31, \ha0, \h29, \hb8, \h50, \h45, \hb6,
      \h81, \h81, \h58, \h5d, \h28, \h33, \he8, \h48, \h79, \hb9, \h70, \h91,
      \h43, \he1, \hf5, \h93, \hf0, \h00, \h00, \h01>>

\* The integer whose little-endian bytes are b, as a digit vector.
IntOfBytes(b) == [i \in 1..(Len(b) \div 2) |-> b[2 * i - 1] + 256 * b[2 * i]]

\* r, as sixteen digits.
rDigits == IntOfBytes([k \in 1..32 |-> MODULUS_STR[33 - k]])

\* a < b as integers: the most significant digit where they differ decides.
LessThan(a, b) ==
    \E k \in 1..Len(a) : a[k] < b[k] /\ \A j \in (k + 1)..Len(a) : a[j] = b[j]

\* x mod r for a seventeen-digit x < r * W: subtract an underestimate of the
\* quotient times r, then r itself until the rest is below r.
RECURSIVE Below(_)
Below(x) ==
    LET d == SubV(x, rDigits \o <<0>>, 0)
    IN IF d.c = 1 THEN x ELSE Below(d.v)

RemStep(x) ==
    LET q == (x[17] * W + x[16]) \div (rDigits[16] + 1)
    IN Below(SubV(x, RowAcc(rDigits, q, 0, <<>>), 0).v)

\* n mod r, for n of sixteen digits or more: long division, one digit at a time
\* (the test on rem has TLC evaluate each rest before the next step).
RECURSIVE ModAcc(_, _, _)
ModAcc(n, pos, rem) ==
    IF pos = 0 \/ Len(rem) # 16 THEN rem
    ELSE ModAcc(n, pos - 1, SubSeq(RemStep(<<n[pos]>> \o rem), 1, 16))

ModR(n) == ModAcc(n, Len(n) - 15, SubSeq(n, Len(n) - 14, Len(n)) \o <<0>>)

(***************************************************************************)
(* fr.rs: the operations.  Each returns what the Rust function returns     *)
(* and, beside it, what the call did: whether it panicked and which field  *)
(* multiplications it made.                                                *)
(***************************************************************************)

Mul(lhs, rhs) == [f |-> "mul", lhs |-> lhs, rhs |-> rhs]

TABLE_SIZE == 65536

\* FR_TABLE[i], the table of src/bn256/fr/table.rs: entry i is i in Montgomery
\* form, i * 2^256 mod r, for i < 2^16; an index past the end panics.
FR_TABLE(i) ==
    IF i < TABLE_SIZE
    THEN [value |-> Limbs(ModR(Zeros(16) \o u64_of(i) \o Zeros(12))), panic |-> FALSE]
    ELSE [value |-> <<>>, panic |-> TRUE]

\* val < n and val as usize, for a u64 val and a number n below 2^31.
u64_lt(val, n) ==
    /\ val[3] = 0 /\ val[4] = 0 /\ val[2] < 2^15
    /\ val[2] * W + val[1] < n

usize_of(val) == val[2] * W + val[1]

\* impl_from_u64!(Fr, R2), without the bn256-table feature: Fr([val, 0, 0, 0]) * R2.
From_u64_baseline(val) ==
    LET raw == <<val, u64_of(0), u64_of(0), u64_of(0)>>
    IN [value |-> mul(raw, R2), panic |-> FALSE, calls |-> <<Mul(raw, R2)>>,
        lookups |-> <<>>]

\* From<u64> with the table taken for val <= 65536.
From_u64_table_inclusive(val) ==
    IF u64_lt(val, 65536 + 1)
    THEN LET e == FR_TABLE(usize_of(val))
         IN [value |-> e.value, panic |-> e.panic, calls |-> <<>>,
             lookups |-> <<usize_of(val)>>]
    ELSE LET raw == <<val, u64_of(0), u64_of(0), u64_of(0)>>
         IN [value |-> mul(raw, R2), panic |-> FALSE, calls |-> <<Mul(raw, R2)>>,
             lookups |-> <<>>]

\* impl From<u64> for Fr, with the bn256-table feature.
From_u64_table(val) ==
    IF u64_lt(val, 65536)
    THEN LET e == FR_TABLE(usize_of(val))
         IN [value |-> e.value, panic |-> e.panic, calls |-> <<>>,
             lookups |-> <<usize_of(val)>>]
    ELSE LET raw == <<val, u64_of(0), u64_of(0), u64_of(0)>>
         IN [value |-> mul(raw, R2), panic |-> FALSE, calls |-> <<Mul(raw, R2)>>,
             lookups |-> <<>>]

From_u64(val, table) == IF table THEN From_u64_table(val) ELSE From_u64_baseline(val)

\* from_repr with the top limb compared on its own, the borrow of the lower
\* limbs not carried into it.
from_repr_borrow_dropped(repr) ==
    LET tmp == <<u64_from_le_bytes(SubSeq(repr, 1, 8)), u64_from_le_bytes(SubSeq(repr, 9, 16)),
                 u64_from_le_bytes(SubSeq(repr, 17, 24)), u64_from_le_bytes(SubSeq(repr, 25, 32))>>
        borrow == sbb(tmp[4], MODULUS[4], u64_of(0))[2]
    IN [value   |-> mul(tmp, R2),
        is_some |-> (borrow[1] % 256) % 2,
        panic   |-> FALSE,
        calls   |-> <<Mul(tmp, R2)>>]

\* from_repr returning early on an out-of-range input, before the multiplication.
from_repr_early_return(repr) ==
    LET tmp == <<u64_from_le_bytes(SubSeq(repr, 1, 8)), u64_from_le_bytes(SubSeq(repr, 9, 16)),
                 u64_from_le_bytes(SubSeq(repr, 17, 24)), u64_from_le_bytes(SubSeq(repr, 25, 32))>>
        b0 == sbb(tmp[1], MODULUS[1], u64_of(0))[2]
        b1 == sbb(tmp[2], MODULUS[2], b0)[2]
        b2 == sbb(tmp[3], MODULUS[3], b1)[2]
        borrow == sbb(tmp[4], MODULUS[4], b2)[2]
        is_some == (borrow[1] % 256) % 2
    IN IF is_some = 1
       THEN [value |-> mul(tmp, R2), is_some |-> 1, panic |-> FALSE, calls |-> <<Mul(tmp, R2)>>]
       ELSE [value |-> tmp, is_some |-> 0, panic |-> FALSE, calls |-> <<>>]

\* PrimeField::from_repr: a CtOption, its value and its is_some.
from_repr(repr) ==
    LET s0 == SubSeq(repr, 1, 8)
        s1 == SubSeq(repr, 9, 16)
        s2 == SubSeq(repr, 17, 24)
        s3 == SubSeq(repr, 25, 32)
        tmp == <<u64_from_le_bytes(s0), u64_from_le_bytes(s1),
                 u64_from_le_bytes(s2), u64_from_le_bytes(s3)>>
        \* Try to subtract the modulus
        b0 == sbb(tmp[1], MODULUS[1], u64_of(0))[2]
        b1 == sbb(tmp[2], MODULUS[2], b0)[2]
        b2 == sbb(tmp[3], MODULUS[3], b1)[2]
        borrow == sbb(tmp[4], MODULUS[4], b2)[2]
        \* (borrow as u8) & 1
        is_some == (borrow[1] % 256) % 2
    IN [value   |-> mul(tmp, R2),
        is_some |-> is_some,
        \* try_into().unwrap() panics on a slice that is not 8 bytes long
        panic   |-> \E sl \in {s0, s1, s2, s3} : Len(sl) # 8,
        calls   |-> <<Mul(tmp, R2)>>]

\* to_repr writing the Montgomery limbs as they are, without the conversion.
to_repr_montgomery(self) ==
    u64_to_le_bytes(self[1]) \o u64_to_le_bytes(self[2])
        \o u64_to_le_bytes(self[3]) \o u64_to_le_bytes(self[4])

\* PrimeField::to_repr
to_repr(self) ==
    LET tmp == into_u64x4(self)
    IN u64_to_le_bytes(tmp[1]) \o u64_to_le_bytes(tmp[2])
           \o u64_to_le_bytes(tmp[3]) \o u64_to_le_bytes(tmp[4])

\* is_odd read off the low bit of the Montgomery limbs.
is_odd_montgomery(self) == self[1][1] % 2

\* PrimeField::is_odd: the Choice, 0 or 1.
is_odd(self) == to_repr(self)[1] % 2

\* from_be_bytes in place of from_le_bytes.
u64_from_be_bytes(b) ==
    <<b[8] + 256 * b[7], b[6] + 256 * b[5], b[4] + 256 * b[3], b[2] + 256 * b[1]>>

\* from_uniform_bytes reading each word big-endian.
from_uniform_bytes_be(bytes) ==
    from_u512(<<u64_from_be_bytes(SubSeq(bytes, 1, 8)),
                u64_from_be_bytes(SubSeq(bytes, 9, 16)),
                u64_from_be_bytes(SubSeq(bytes, 17, 24)),
                u64_from_be_bytes(SubSeq(bytes, 25, 32)),
                u64_from_be_bytes(SubSeq(bytes, 33, 40)),
                u64_from_be_bytes(SubSeq(bytes, 41, 48)),
                u64_from_be_bytes(SubSeq(bytes, 49, 56)),
                u64_from_be_bytes(SubSeq(bytes, 57, 64))>>)

\* FromUniformBytes<64>::from_uniform_bytes
from_uniform_bytes(bytes) ==
    from_u512(<<u64_from_le_bytes(SubSeq(bytes, 1, 8)),
                u64_from_le_bytes(SubSeq(bytes, 9, 16)),
                u64_from_le_bytes(SubSeq(bytes, 17, 24)),
                u64_from_le_bytes(SubSeq(bytes, 25, 32)),
                u64_from_le_bytes(SubSeq(bytes, 33, 40)),
                u64_from_le_bytes(SubSeq(bytes, 41, 48)),
                u64_from_le_bytes(SubSeq(bytes, 49, 56)),
                u64_from_le_bytes(SubSeq(bytes, 57, 64))>>)

\* The caller's RngCore: a generator that is its seed and the number of words
\* drawn so far; next_u64 returns the next word and the advanced generator.
WordOf(seed, n) == [j \in 1..4 |-> ((seed + 1) * (4 * n + j) * 25173 + 13849) % W]

next_u64(rng) ==
    [word |-> WordOf(rng.seed, rng.calls), rng |-> [rng EXCEPT !.calls = @ + 1]]

\* random drawing four words and using each for two limbs.
random_four_draws(rng) ==
    LET c0 == next_u64(rng)
        c1 == next_u64(c0.rng)
        c2 == next_u64(c1.rng)
        c3 == next_u64(c2.rng)
        drawn == <<c0.word, c1.word, c2.word, c3.word>>
    IN [value |-> from_u512(drawn \o drawn), rng |-> c3.rng, drawn |-> drawn]

\* Field::random: the element, the generator as the call leaves it and the
\* words in the order drawn.
random(rng) ==
    LET c0 == next_u64(rng)
        c1 == next_u64(c0.rng)
        c2 == next_u64(c1.rng)
        c3 == next_u64(c2.rng)
        c4 == next_u64(c3.rng)
        c5 == next_u64(c4.rng)
        c6 == next_u64(c5.rng)
        c7 == next_u64(c6.rng)
        drawn == <<c0.word, c1.word, c2.word, c3.word, c4.word, c5.word, c6.word, c7.word>>
    IN [value |-> from_u512(drawn), rng |-> c7.rng, drawn |-> drawn]

\* Field::sqrt: the call it makes, ff::helpers::sqrt_tonelli_shanks(self, T_MINUS1_OVER2).
sqrt(self) == [f |-> "sqrt_tonelli_shanks", self |-> self, tm1d2 |-> T_MINUS1_OVER2]

(***************************************************************************)
(* The inputs the calls are made with.                                     *)
(***************************************************************************)

\* How far around each boundary value the inputs reach.
MaxDelta == 2

\* The small integers tried: 0..MaxSmall.
MaxSmall == 6

\* The generators tried: seeds 0..MaxSeed.
MaxSeed == 4

\* The little-endian bytes of a digit vector.
BytesOfInt(d) ==
    [k \in 1..(2 * Len(d)) |-> IF k % 2 = 1 THEN d[(k + 1) \div 2] % 256
                                            ELSE d[k \div 2] \div 256]

\* n * 2^(64 i) as a vector of len digits, for a number n < W.
LimbStep(n, i, len) == [k \in 1..len |-> IF k = 4 * i + 1 THEN n ELSE 0]

AllOnes(len) == [k \in 1..len |-> W - 1]

\* 256-bit integers: around r in every limb, small ones, the largest ones and
\* the constants.
ReprValues ==
    {AddV(Digits(MODULUS), LimbStep(n, i, 16), 0).v : n \in 0..MaxDelta, i \in 0..3}
        \cup {SubV(Digits(MODULUS), LimbStep(n, i, 16), 0).v : n \in 1..MaxDelta, i \in 0..3}
        \cup {LimbStep(n, 0, 16) : n \in 0..MaxSmall}
        \cup {SubV(AllOnes(16), LimbStep(n, 0, 16), 0).v : n \in 0..MaxDelta}
        \cup {Digits(R), Digits(R2), Digits(R3)}

ReprInputs == {BytesOfInt(v) : v \in ReprValues}

\* u64 values: small ones, around the table's end, around 2^32 and the largest.
U64Inputs ==
    {u64_of(n) : n \in 0..MaxSmall}
        \cup {u64_of(65536 + n) : n \in 0..MaxDelta}
        \cup {u64_of(65536 - n) : n \in 1..MaxDelta}
        \cup {<<n, 0, 1, 0>> : n \in 0..MaxDelta}
        \cup {SubV(AllOnes(4), LimbStep(n, 0, 4), 0).v : n \in 0..MaxDelta}

\* 64-byte strings: one nonzero byte at each of the 64 places, the largest
\* ones, r in either half and the constants.
WideInputs ==
    {[k \in 1..64 |-> IF k = p THEN 1 + ((37 * p) % 255) ELSE 0] : p \in 1..64}
        \cup {BytesOfInt(SubV(AllOnes(32), LimbStep(n, 0, 32), 0).v) : n \in 0..MaxDelta}
        \cup {BytesOfInt(Digits(MODULUS) \o Zeros(16)),
              BytesOfInt(Zeros(16) \o Digits(MODULUS)),
              BytesOfInt(Digits(R2) \o Digits(R3)),
              BytesOfInt(Digits(ROOT_OF_UNITY) \o Digits(ZETA))}

\* The constants the traits export.
PublicConstants ==
    [ZERO |-> ZERO, ONE |-> ONE, MULTIPLICATIVE_GENERATOR |-> GENERATOR,
     ROOT_OF_UNITY |-> ROOT_OF_UNITY, ROOT_OF_UNITY_INV |-> ROOT_OF_UNITY_INV,
     TWO_INV |-> TWO_INV, DELTA |-> DELTA, ZETA |-> ZETA]

(***************************************************************************)
(* The state machine: a caller builds a field element (the constructors),  *)
(* may look at it once (to_repr, is_odd, sqrt) and drops it.               *)
(***************************************************************************)

VARIABLES
    pc,       \* "idle": no element; "live": one built; "used": one looked at
    op,       \* the function last called
    ctor,     \* the function that built the element
    arg,      \* the input the element was built from
    elem,     \* the element: an Fr, for from_repr the one in the CtOption
    is_some,  \* the CtOption's flag, 1 where the constructor returns an Fr
    panicked, \* whether the call panicked
    calls,    \* the field multiplications the constructor made
    lookups,  \* the FR_TABLE indices the constructor read
    rng,      \* the generator as the last random left it
    out       \* what to_repr, is_odd or sqrt returned

vars == <<pc, op, ctor, arg, elem, is_some, panicked, calls, lookups, rng, out>>

NoRng == [seed |-> 0, calls |-> 0]

Init ==
    /\ pc = "idle"
    /\ op = "none"
    /\ ctor = "none"
    /\ arg = <<>>
    /\ elem = ZERO
    /\ is_some = 0
    /\ panicked = FALSE
    /\ calls = <<>>
    /\ lookups = <<>>
    /\ rng = NoRng
    /\ out = <<>>

FromRepr ==
    /\ pc = "idle"
    /\ \E repr \in ReprInputs :
          LET r == from_repr(repr)
          IN /\ pc' = "live"
             /\ op' = "from_repr"
             /\ ctor' = "from_repr"
             /\ arg' = repr
             /\ elem' = r.value
             /\ is_some' = r.is_some
             /\ panicked' = r.panic
             /\ calls' = r.calls
    /\ UNCHANGED <<lookups, rng, out>>

FromU64 ==
    /\ pc = "idle"
    /\ \E val \in U64Inputs, table \in BOOLEAN :
          LET r == From_u64(val, table)
          IN /\ pc' = "live"
             /\ op' = "from_u64"
             /\ ctor' = "from_u64"
             /\ arg' = [val |-> val, table |-> table]
             /\ elem' = r.value
             /\ is_some' = 1
             /\ panicked' = r.panic
             /\ calls' = r.calls
             /\ lookups' = r.lookups
    /\ UNCHANGED <<rng, out>>

FromUniformBytes ==
    /\ pc = "idle"
    /\ \E bytes \in WideInputs :
          /\ pc' = "live"
          /\ op' = "from_uniform_bytes"
          /\ ctor' = "from_uniform_bytes"
          /\ arg' = bytes
          /\ elem' = from_uniform_bytes(bytes)
          /\ is_some' = 1
    /\ UNCHANGED <<panicked, calls, lookups, rng, out>>

Random ==
    /\ pc = "idle"
    /\ \E seed \in 0..MaxSeed :
          LET g == [seed |-> seed, calls |-> 0]
              r == random(g)
          IN /\ pc' = "live"
             /\ op' = "random"
             /\ ctor' = "random"
             /\ arg' = [rng |-> g, drawn |-> r.drawn]
             /\ elem' = r.value
             /\ is_some' = 1
             /\ rng' = r.rng
    /\ UNCHANGED <<panicked, calls, lookups, out>>

Constant ==
    /\ pc = "idle"
    /\ \E name \in DOMAIN PublicConstants :
          /\ pc' = "live"
          /\ op' = "constant"
          /\ ctor' = "constant"
          /\ arg' = name
          /\ elem' = PublicConstants[name]
          /\ is_some' = 1
    /\ UNCHANGED <<panicked, calls, lookups, rng, out>>

\* The element a caller can reach: not the one inside a failed CtOption, and
\* none after a panic.
Usable == pc = "live" /\ is_some = 1 /\ ~panicked

ToRepr ==
    /\ Usable
    /\ pc' = "used"
    /\ op' = "to_repr"
    /\ out' = to_repr(elem)
    /\ UNCHANGED <<ctor, arg, elem, is_some, panicked, calls, lookups, rng>>

IsOdd ==
    /\ Usable
    /\ pc' = "used"
    /\ op' = "is_odd"
    /\ out' = is_odd(elem)
    /\ UNCHANGED <<ctor, arg, elem, is_some, panicked, calls, lookups, rng>>

Sqrt ==
    /\ Usable
    /\ pc' = "used"
    /\ op' = "sqrt"
    /\ out' = sqrt(elem)
    /\ UNCHANGED <<ctor, arg, elem, is_some, panicked, calls, lookups, rng>>

Drop ==
    /\ pc # "idle"
    /\ pc' = "idle"
    /\ op' = "none"
    /\ ctor' = "none"
    /\ arg' = <<>>
    /\ elem' = ZERO
    /\ is_some' = 0
    /\ panicked' = FALSE
    /\ calls' = <<>>
    /\ lookups' = <<>>
    /\ rng' = NoRng
    /\ out' = <<>>

Next ==
    \/ FromRepr
    \/ FromU64
    \/ FromUniformBytes
    \/ Random
    \/ Constant
    \/ ToRepr
    \/ IsOdd
    \/ Sqrt
    \/ Drop

Spec == Init /\ [][Next]_vars

(***************************************************************************)
(* Properties.                                                             *)
(***************************************************************************)

\* The 32 little-endian bytes repr are an integer below r: at the most
\* significant byte where repr and MODULUS_STR differ, repr is smaller.
BytesBelowModulus(repr) ==
    \E k \in 1..32 : /\ repr[k] < MODULUS_STR[33 - k]
                     /\ \A j \in (k + 1)..32 : repr[j] = MODULUS_STR[33 - j]

\* The limbs of an Fr are an integer below r.
BelowModulus(f) == LessThan(Digits(f), rDigits)

\* c is the canonical value of the Montgomery-form element f: c < r and
\* c * 2^256 mod r is the integer of f's limbs.
CanonicalOf(c, f) == LessThan(c, rDigits) /\ ModR(Zeros(16) \o c) = Digits(f)

\* C1: from_repr returns is_some = 1 exactly when the integer of the 32 bytes is
\* below r (is_some = 0 for r itself and for all-0xFF), and it never panics.
C1_FlagIffBelowModulus ==
    op = "from_repr" =>
        /\ is_some = (IF BytesBelowModulus(arg) THEN 1 ELSE 0)
        /\ ~panicked

\* from_repr was given exactly r, and flagged it.
C1_Witness ==
    /\ op = "from_repr" /\ IntOfBytes(arg) = rDigits
    /\ is_some = 0 /\ ~panicked

\* C2: for an element a whose limbs are below r, from_repr(to_repr(a)) is
\* (a, is_some = 1), limb for limb.
C2_RoundTrip ==
    (op = "to_repr" /\ BelowModulus(elem)) =>
        LET back == from_repr(out)
        IN back.is_some = 1 /\ back.value = elem /\ ~back.panic

\* to_repr wrote an element that is neither 0 nor in the same form as its bytes.
C2_Witness ==
    /\ op = "to_repr" /\ BelowModulus(elem)
    /\ elem # ZERO /\ IntOfBytes(out) # Digits(elem)
    /\ from_repr(out).value = elem

\* The Fr constants of the file.
FrConstants ==
    [MODULUS |-> MODULUS, R |-> R, R2 |-> R2, R3 |-> R3, GENERATOR |-> GENERATOR,
     ROOT_OF_UNITY |-> ROOT_OF_UNITY, TWO_INV |-> TWO_INV,
     ROOT_OF_UNITY_INV |-> ROOT_OF_UNITY_INV, DELTA |-> DELTA, ZETA |-> ZETA]

\* C3: every Fr value has limbs below r: each Fr constant of the file, and every
\* element from_repr (with either flag), From<u64>, random and
\* from_uniform_bytes return.
C3_EveryFrBelowModulus ==
    /\ \A name \in DOMAIN FrConstants : BelowModulus(FrConstants[name])
    /\ (pc # "idle" /\ ~panicked) => BelowModulus(elem)

\* What holds of C3: the constants other than MODULUS, and every element returned.
C3_AllButModulus ==
    /\ \A name \in DOMAIN FrConstants \ {"MODULUS"} : BelowModulus(FrConstants[name])
    /\ (pc # "idle" /\ ~panicked) => BelowModulus(elem)

\* The integer from_repr parsed from its input.
Candidate == Limbs(IntOfBytes(arg))

\* C4, as claimed: when from_repr fails, the parsed candidate goes into no
\* field multiplication.
C4_CandidateUnusedOnFailure ==
    (op = "from_repr" /\ is_some = 0) =>
        \A i \in 1..Len(calls) : calls[i].lhs # Candidate /\ calls[i].rhs # Candidate

\* C4, amended: from_repr multiplies the candidate by R2 on every path, the
\* failure path included, and returns the product, there under is_some = 0.
C4_CandidateMultipliedOnEveryPath ==
    op = "from_repr" =>
        /\ calls = <<Mul(Candidate, R2)>>
        /\ elem = mul(Candidate, R2)
        /\ (~BytesBelowModulus(arg) => is_some = 0)

\* from_repr failed, and multiplied the candidate all the same.
C4_Witness ==
    /\ op = "from_repr" /\ is_some = 0 /\ ~BytesBelowModulus(arg)
    /\ calls = <<Mul(Candidate, R2)>>

\* C5: with the table, From<u64> reads FR_TABLE only at val < 65536, takes the
\* multiplication for every other val, and in both builds returns
\* Fr([val, 0, 0, 0]) * R2.
C5_TableEqualsBaseline ==
    op = "from_u64" =>
        LET raw == <<arg.val, u64_of(0), u64_of(0), u64_of(0)>>
            small == arg.val[2] = 0 /\ arg.val[3] = 0 /\ arg.val[4] = 0
        IN /\ ~panicked
           /\ elem = mul(raw, R2)
           /\ \A i \in 1..Len(lookups) : lookups[i] < TABLE_SIZE
           /\ (arg.table /\ small) => (lookups = <<arg.val[1]>> /\ calls = <<>>)
           /\ (arg.table /\ ~small) => (lookups = <<>> /\ calls = <<Mul(raw, R2)>>)
           /\ ~arg.table => (lookups = <<>> /\ calls = <<Mul(raw, R2)>>)

\* The last entry of the table was read, and is what the multiplication gives.
C5_Witness ==
    /\ op = "from_u64" /\ arg.table /\ lookups = <<TABLE_SIZE - 1>>
    /\ elem = mul(<<arg.val, u64_of(0), u64_of(0), u64_of(0)>>, R2)

\* C6: from_uniform_bytes returns the element whose canonical value is N mod r,
\* N the 512-bit integer with byte k of the input at bit 8 k.
C6_WideReduction ==
    op = "from_uniform_bytes" =>
        IntOfBytes(to_repr(elem)) = ModR(IntOfBytes(arg))

\* from_uniform_bytes reduced an input with a byte in its last word set.
C6_Witness ==
    /\ op = "from_uniform_bytes"
    /\ \E k \in 57..64 : arg[k] # 0
    /\ IntOfBytes(to_repr(elem)) = ModR(IntOfBytes(arg))

\* The little-endian bytes of eight words.
BytesOfWords(words) ==
    [k \in 1..64 |-> u64_to_le_bytes(words[((k - 1) \div 8) + 1])[((k - 1) % 8) + 1]]

\* C7: random calls next_u64 exactly 8 times, word i in limb i, and returns
\* from_uniform_bytes of the little-endian bytes of the 8 words: a function of
\* the generator's output alone.
C7_RandomIsWideReductionOfDraws ==
    op = "random" =>
        /\ rng = [arg.rng EXCEPT !.calls = @ + 8]
        /\ arg.drawn = [i \in 1..8 |-> WordOf(arg.rng.seed, arg.rng.calls + i - 1)]
        /\ elem = from_uniform_bytes(BytesOfWords(arg.drawn))

\* random returned, the generator eight words on.
C7_Witness ==
    /\ op = "random" /\ rng.calls = 8 /\ Len(arg.drawn) = 8
    /\ elem = from_uniform_bytes(BytesOfWords(arg.drawn))

\* C8: is_odd is bit 0 of the canonical value of the element, which is bit 0 of
\* byte 0 of to_repr, whatever the low bit of the Montgomery limbs.
C8_IsOddIsCanonicalParity ==
    op = "is_odd" =>
        LET c == IntOfBytes(to_repr(elem))
        IN CanonicalOf(c, elem) /\ out = c[1] % 2

\* is_odd differed from the low bit of the Montgomery limbs.
C8_Witness ==
    /\ op = "is_odd" /\ out # elem[1][1] % 2
    /\ out = IntOfBytes(to_repr(elem))[1] % 2

SevenBytes == <<7>> \o Zeros(31)

\* C9: GENERATOR is the element 7: to_repr gives 0x07 and 31 zero bytes, and
\* from_repr of these bytes gives GENERATOR with is_some = 1.
C9_GeneratorIsSeven ==
    (op = "to_repr" /\ ctor = "constant" /\ arg = "MULTIPLICATIVE_GENERATOR") =>
        /\ elem = GENERATOR
        /\ out = SevenBytes
        /\ from_repr(SevenBytes).is_some = 1
        /\ from_repr(SevenBytes).value = GENERATOR

\* to_repr was called on the exported generator.
C9_Witness ==
    /\ op = "to_repr" /\ ctor = "constant" /\ arg = "MULTIPLICATIVE_GENERATOR"
    /\ out = SevenBytes

\* d >> n for a digit vector d.
ShiftRight(d, n) ==
    LET q == n \div 16
        s == n % 16
        At(i) == IF i <= Len(d) THEN d[i] ELSE 0
    IN [i \in 1..Len(d) |-> (At(i + q) \div 2^s) + (At(i + q + 1) % 2^s) * 2^(16 - s)]

\* d << n for a digit vector d, wrapped to its length.
ShiftLeft(d, n) ==
    LET q == n \div 16
        s == n % 16
        At(i) == IF i >= 1 THEN d[i] ELSE 0
    IN [i \in 1..Len(d) |-> ((At(i - q) % 2^(16 - s)) * 2^s) + (At(i - q - 1) \div 2^(16 - s))]

\* r - 1 and its odd part t, from the limbs of MODULUS.
ModulusMinus1 == SubV(Digits(MODULUS), LimbStep(1, 0, 16), 0).v

OddPart == ShiftRight(ModulusMinus1, S)

\* C10: r - 1 = t * 2^S with t odd, and the exponent sqrt hands to
\* Tonelli-Shanks is (t - 1) / 2.
C10_SqrtExponent ==
    op = "sqrt" =>
        /\ ShiftLeft(OddPart, S) = ModulusMinus1
        /\ OddPart[1] % 2 = 1
        /\ AddV(Digits(out.tm1d2), Digits(out.tm1d2), 1).v = OddPart
        /\ out.tm1d2 = Limbs(ShiftRight(OddPart, 1))

\* sqrt was called, and handed over the exponent.
C10_Witness ==
    /\ op = "sqrt" /\ out.f = "sqrt_tonelli_shanks" /\ out.self = elem
    /\ out.tm1d2 = Limbs(ShiftRight(OddPart, 1))

====
